---- MODULE Spec2Model ----
(***************************************************************************)
(* Model of the OAuth backend in src/src/index.js: the in-memory map of    *)
(* pending OAuth sessions, the callback relay that fills it, the poll      *)
(* endpoint that drains it, the expiry sweep, and the token-exchange and   *)
(* refresh proxies with their analytics counters.                          *)
(*                                                                         *)
(* JavaScript values: a string is a sequence of one-character strings;     *)
(* undefined and null are the two sequences Undefined and Null, which are  *)
(* no string of the model because their single element is not a character. *)
(***************************************************************************)
EXTENDS Integers, Sequences, FiniteSets, TLC

VARIABLES
  pendingAuthSessions, \* the Map, as the sequence of its entries in insertion order
  analytics,           \* uniqueUsers, tokenExchanges, tokenRefreshes
  now,                 \* Date.now(), in ms since the process started
  nextSweep,           \* the time the setInterval timer is next due
  inflight,            \* token/refresh requests suspended at an await
  last,                \* the request handled by the last step and its response
  hist                 \* history: per session id, the most recent callback and what became of its record
                       \* (seen: what it carried; at: its time while its record is in the store, else 0;
                       \* overwrote: it replaced a record; polled, completed, swept: since that callback)

vars == <<pendingAuthSessions, analytics, now, nextSweep, inflight, last, hist>>

----------------------------------------------------------------------------
(* Bounds *)

MaxIntervals == 3       \* sweep intervals of time the clock runs through
MaxRequests == 2        \* token and refresh requests per run
MaxTimelyIntervals == 4 \* sweep intervals the clock runs through when the sweep is on time

----------------------------------------------------------------------------
(* JavaScript values *)

Undefined == <<"undefined">>
Null == <<"null">>

Delim == "|"

\* values of the state query parameter: missing, empty, without delimiter,
\* csrfState|sessionId for the ids s and t, an empty session id, and values
\* with two delimiters
StateValues ==
  {Undefined, <<>>, <<"c">>,
   <<"c", Delim, "s">>, <<"c", Delim, "t">>, <<"c", Delim>>,
   <<"c", Delim, "s", Delim, "t">>, <<"c", Delim, Delim, "s">>}

\* values of the code and error query parameters: missing, empty, present
CodeValues == {Undefined, <<>>, <<"a">>}
ErrorValues == {Undefined, <<"e">>}

\* values of the session query parameter of a poll
SessionValues == {Undefined, <<>>, <<"s">>, <<"t">>}

\* JavaScript truthiness of undefined, null and strings
Truthy(v) == v # Undefined /\ v # Null /\ v # <<>>

\* mutant: the value is stored as it came
OrNull_Keep(v) == v

\* v || null
OrNull(v) == IF Truthy(v) THEN v ELSE Null

\* state.includes('|')
Includes(s, c) == \E i \in 1..Len(s) : s[i] = c

\* index of the first c in s, 0 when there is none
IndexOf(s, c) ==
  IF Includes(s, c) THEN CHOOSE i \in 1..Len(s) : s[i] = c /\ \A j \in 1..(i - 1) : s[j] # c
  ELSE 0

\* state.split('|')
RECURSIVE Split(_, _)
Split(s, c) ==
  IF ~Includes(s, c) THEN <<s>>
  ELSE LET i == IndexOf(s, c)
       IN <<SubSeq(s, 1, i - 1)>> \o Split(SubSeq(s, i + 1, Len(s)), c)

----------------------------------------------------------------------------
(* The Map pendingAuthSessions: entries [key, value] in insertion order *)

EmptyMap == <<>>

MapKeys(m) == {m[i].key : i \in 1..Len(m)}

MapHas(m, k) == k \in MapKeys(m)

\* mutant: the value of the first entry, whatever its key
MapGet_First(m, k) == IF Len(m) > 0 THEN m[1].value ELSE Undefined

\* Map.prototype.get: the value of the entry for k, undefined when there is none
MapGet(m, k) ==
  IF MapHas(m, k) THEN m[CHOOSE i \in 1..Len(m) : m[i].key = k].value
  ELSE Undefined

\* mutant: always appends a new entry
MapSet_Append(m, k, v) == Append(m, [key |-> k, value |-> v])

\* Map.prototype.set: replaces the value of the entry for k in place,
\* appends a new entry when there is none
MapSet(m, k, v) ==
  IF MapHas(m, k)
  THEN [i \in 1..Len(m) |-> IF m[i].key = k THEN [key |-> k, value |-> v] ELSE m[i]]
  ELSE Append(m, [key |-> k, value |-> v])

\* mutant: nothing is removed
MapDelete_None(m, k) == m

\* Map.prototype.delete: removes the entry for k, keeps the order of the rest
MapDelete(m, k) == SelectSeq(m, LAMBDA e : e.key # k)

----------------------------------------------------------------------------
(* Time *)

expireTime == 10 * 60 * 1000        \* sessions expire after 10 minutes
SweepIntervalMs == 5 * 60 * 1000    \* the sweep runs every 5 minutes

\* the clock is observed at multiples of the sweep interval
TickMs == SweepIntervalMs
MaxNow == MaxIntervals * SweepIntervalMs

\* mutant: a record expires already at the age of the TTL
Expired_Inclusive(data, t) == t - data.timestamp >= expireTime

\* mutant: the age is taken in seconds and compared with the TTL in milliseconds
Expired_Seconds(data, t) == (t - data.timestamp) \div 1000 > expireTime

\* the test of the sweep loop
Expired(data, t) == t - data.timestamp > expireTime

\* the body of the setInterval callback: deletes every expired entry
SweepMap(m, t) == SelectSeq(m, LAMBDA e : ~Expired(e.value, t))

----------------------------------------------------------------------------
(* GET /oauth/callback *)

\* the session id recovered from the state value (null when there is none)
SessionIdOf(state) ==
  IF Truthy(state) /\ Includes(state, Delim) THEN Split(state, Delim)[2] ELSE Null

\* mutant: the state value is stored whole
CsrfStateOf_Whole(state) == state

\* the CSRF part of the state value
CsrfStateOf(state) ==
  IF Truthy(state) /\ Includes(state, Delim) THEN Split(state, Delim)[1] ELSE state

\* the record the callback stores
AuthData(code, state, error, t) ==
  [code |-> OrNull(code), state |-> CsrfStateOf(state), error |-> OrNull(error), timestamp |-> t]

\* History: what a callback request carried, as the client reads it: its code
\* and error (null when missing or empty) and its state up to the first delimiter
Carried(code, state, error) ==
  LET given(v) == IF v = Undefined \/ v = <<>> THEN Null ELSE v
      cut == IndexOf(state, Delim)
  IN [code |-> given(code),
      state |-> IF cut = 0 THEN state ELSE SubSeq(state, 1, cut - 1),
      error |-> given(error)]

\* What the handler does to the service. The page it sends embeds code || null,
\* csrfState || null and error || null for the opener window; the page changes
\* no state of the service.
CallbackEffect(code, state, error) ==
  LET sessionId == SessionIdOf(state)
      data == AuthData(code, state, error, now)
  IN /\ IF Truthy(sessionId)
        THEN /\ pendingAuthSessions' = MapSet(pendingAuthSessions, sessionId, data)
             /\ hist' = (sessionId :> [seen |-> Carried(code, state, error),
                                       at |-> now,
                                       overwrote |-> MapHas(pendingAuthSessions, sessionId),
                                       polled |-> FALSE,
                                       completed |-> 0,
                                       swept |-> FALSE]) @@ hist
        ELSE UNCHANGED <<pendingAuthSessions, hist>>
     /\ UNCHANGED <<analytics, now, nextSweep, inflight>>

\* the handler, observed by its response
Callback(code, state, error) ==
  /\ CallbackEffect(code, state, error)
  /\ last' = [op |-> "callback", res |-> [status |-> 200]]

\* the handler, observed by its request and its response
CallbackOf(code, state, error) ==
  /\ CallbackEffect(code, state, error)
  /\ last' = [op |-> "callback",
              req |-> [code |-> code, state |-> state, error |-> error],
              res |-> [status |-> 200]]

----------------------------------------------------------------------------
(* GET /oauth/poll *)

\* mutant: a missing session is looked up like any other
PollResponse_NoCheck(m, session) ==
  IF ~MapHas(m, session)
  THEN [status |-> 200, body |-> [status |-> "pending"]]
  ELSE [status |-> 200,
        body |-> [status |-> "completed",
                  code |-> MapGet(m, session).code,
                  state |-> MapGet(m, session).state,
                  error |-> MapGet(m, session).error]]

PollResponse(m, session) ==
  IF ~Truthy(session)
  THEN [status |-> 400, body |-> [error |-> "Missing session parameter"]]
  ELSE IF ~MapHas(m, session)
  THEN [status |-> 200, body |-> [status |-> "pending"]]
  ELSE LET authData == MapGet(m, session)
       IN [status |-> 200,
           body |-> [status |-> "completed",
                     code |-> authData.code,
                     state |-> authData.state,
                     error |-> authData.error]]

\* mutant: the entry is left in the store
PollStore_NoDelete(m, session) == m

\* the store after the poll: the entry is deleted when it was found
PollStore(m, session) ==
  IF Truthy(session) /\ MapHas(m, session) THEN MapDelete(m, session) ELSE m

Poll(session) ==
  LET res == PollResponse(pendingAuthSessions, session)
      known == session \in DOMAIN hist
  IN /\ pendingAuthSessions' = PollStore(pendingAuthSessions, session)
     /\ hist' =
          IF known
          THEN [hist EXCEPT ![session].polled = TRUE,
                            ![session].at = 0,
                            ![session].completed =
                               IF res.body = [status |-> "pending"] THEN @ ELSE @ + 1]
          ELSE hist
     /\ last' = [op |-> "poll",
                 req |-> [session |-> session],
                 res |-> res,
                 first |-> known /\ ~hist[session].polled]
     /\ UNCHANGED <<analytics, now, nextSweep, inflight>>

----------------------------------------------------------------------------
(* The clock and the sweep timer *)

Tick ==
  /\ now + TickMs <= MaxNow
  /\ now' = now + TickMs
  /\ last' = [op |-> "tick"]
  /\ UNCHANGED <<pendingAuthSessions, analytics, nextSweep, inflight, hist>>

\* the timer fires when it is due, not before, and is then due one interval later
Sweep ==
  /\ now >= nextSweep
  /\ pendingAuthSessions' = SweepMap(pendingAuthSessions, now)
  /\ hist' = [id \in DOMAIN hist |->
                IF MapHas(pendingAuthSessions, id) /\ ~MapHas(SweepMap(pendingAuthSessions, now), id)
                THEN [hist[id] EXCEPT !.swept = TRUE, !.at = 0]
                ELSE hist[id]]
  /\ nextSweep' = now + SweepIntervalMs
  /\ last' = [op |-> "sweep"]
  /\ UNCHANGED <<analytics, now, inflight>>

----------------------------------------------------------------------------
(* POST /oauth/token and POST /oauth/refresh *)

ClientIPs == {"10.0.0.1", "10.0.0.2"}

\* hashIP: the digest is kept abstract, one digest per address
hashIP(ip) == <<"sha256", ip, "salt">>

\* values of the code / refresh_token field of the JSON request body: missing,
\* null, empty, present
BodyValues == {Undefined, Null, <<>>, <<"a">>}

\* what the call to the upstream token endpoint can come to: fetch rejects,
\* response.json() rejects, or a JSON value is parsed (null, or an object
\* given as the record of the fields it has: empty, an error with and without
\* description, the five token fields, and four of them next to an id_token)
UpstreamOutcomes ==
  {[kind |-> "network_error"],
   [kind |-> "malformed"],
   [kind |-> "json", isNull |-> TRUE, data |-> [x \in {} |-> ""]],
   [kind |-> "json", isNull |-> FALSE, data |-> [x \in {} |-> ""]],
   [kind |-> "json", isNull |-> FALSE,
    data |-> [error |-> "invalid_grant", error_description |-> "Bad code"]],
   [kind |-> "json", isNull |-> FALSE, data |-> [error |-> "invalid_grant"]],
   [kind |-> "json", isNull |-> FALSE,
    data |-> [access_token |-> "a", refresh_token |-> "r", expires_in |-> "3599",
              token_type |-> "Bearer", scope |-> "cal"]],
   [kind |-> "json", isNull |-> FALSE,
    data |-> [access_token |-> "a", expires_in |-> "3599",
              token_type |-> "Bearer", scope |-> "cal", id_token |-> "i"]]}

\* data.error is truthy
HasError(data) == "error" \in DOMAIN data /\ data.error # ""

\* mutant: the upstream body is relayed whole
JsonBody_Whole(data, keys) == data

\* an object literal as res.json sends it: keys whose value is undefined are left out
JsonBody(data, keys) == [k \in keys \cap DOMAIN data |-> data[k]]

\* mutant: the upstream error is replaced by a message of the proxy
ErrorBody_Generic(data) == [error |-> "Token exchange failed"]

\* { error: data.error, description: data.error_description }
ErrorBody(data) ==
  LET present == {"error", "error_description"} \cap DOMAIN data
  IN [k \in {IF f = "error" THEN "error" ELSE "description" : f \in present} |->
        IF k = "error" THEN data.error ELSE data.error_description]

TokenKeys == {"access_token", "refresh_token", "expires_in", "token_type", "scope"}
RefreshKeys == {"access_token", "expires_in", "token_type", "scope"}

\* mutant: every failure is answered 400, with what the upstream sent if it parsed
SettledResponse_All400(o, keys, failure) ==
  IF o.kind # "json" \/ o.isNull
  THEN [status |-> 400, body |-> [error |-> failure]]
  ELSE IF HasError(o.data)
  THEN [status |-> 400, body |-> ErrorBody(o.data)]
  ELSE [status |-> 200, body |-> JsonBody(o.data, keys)]

\* the response of a request once its upstream call has come to outcome o
SettledResponse(o, keys, failure) ==
  IF o.kind # "json" \/ o.isNull
  THEN [status |-> 500, body |-> [error |-> failure]]
  ELSE IF HasError(o.data)
  THEN [status |-> 400, body |-> ErrorBody(o.data)]
  ELSE [status |-> 200, body |-> JsonBody(o.data, keys)]

\* mutant: a failure on the way to the upstream is not counted
Count_NoServerError(c, res) ==
  IF res.status = 200 THEN [c EXCEPT !.success = @ + 1]
  ELSE IF res.status = 400 THEN [c EXCEPT !.failed = @ + 1]
  ELSE c

\* the counter a response moves: success on 200, failed otherwise
Count(c, res) ==
  IF res.status = 200 THEN [c EXCEPT !.success = @ + 1] ELSE [c EXCEPT !.failed = @ + 1]

Arrived(c) == [c EXCEPT !.total = @ + 1]

Requests == analytics.tokenExchanges.total + analytics.tokenRefreshes.total

RemoveAt(q, i) == SubSeq(q, 1, i - 1) \o SubSeq(q, i + 1, Len(q))

NoResponse == [status |-> 0]   \* the request is suspended, nothing is sent yet

\* if (!code): the request is counted as failed and answered 400
TokenReject(code, ip) ==
  LET res == [status |-> 400, body |-> [error |-> "Missing authorization code"]]
  IN /\ analytics' = [analytics EXCEPT
                        !.tokenExchanges = Count(Arrived(@), res),
                        !.uniqueUsers = @ \cup {hashIP(ip)}]
     /\ inflight' = inflight
     /\ last' = [op |-> "token", req |-> [code |-> code], res |-> res, calls |-> 0]
     /\ UNCHANGED <<pendingAuthSessions, now, nextSweep, hist>>

\* the upstream is called and the handler suspends at the await
TokenForward(code, ip) ==
  /\ analytics' = [analytics EXCEPT
                     !.tokenExchanges = Arrived(@),
                     !.uniqueUsers = @ \cup {hashIP(ip)}]
  /\ inflight' = Append(inflight, [kind |-> "token", calls |-> 1])
  /\ last' = [op |-> "token", req |-> [code |-> code], res |-> NoResponse, calls |-> 1]
  /\ UNCHANGED <<pendingAuthSessions, now, nextSweep, hist>>

\* mutant: a request waits until no upstream call is under way
TokenRequest_Serial(code, ip) ==
  /\ Requests < MaxRequests
  /\ inflight = <<>>
  /\ IF ~Truthy(code) THEN TokenReject(code, ip) ELSE TokenForward(code, ip)

\* mutant: the code is not checked before the upstream is called
TokenRequest_NoCheck(code, ip) ==
  /\ Requests < MaxRequests
  /\ TokenForward(code, ip)

\* the handler up to its first await
TokenRequest(code, ip) ==
  /\ Requests < MaxRequests
  /\ IF ~Truthy(code) THEN TokenReject(code, ip) ELSE TokenForward(code, ip)

\* mutant: the handler keeps the answer of the upstream in the session store
TokenSettles_Stores(i, o) ==
  /\ i \in 1..Len(inflight)
  /\ inflight[i].kind = "token"
  /\ LET res == SettledResponse(o, TokenKeys, "Token exchange failed")
     IN /\ analytics' = [analytics EXCEPT !.tokenExchanges = Count(@, res)]
        /\ last' = [op |-> "token_settled", upstream |-> o, res |-> res,
                    calls |-> inflight[i].calls]
        /\ pendingAuthSessions' =
             MapSet(pendingAuthSessions, <<"t">>,
                    [code |-> Null, state |-> <<"c">>, error |-> Null,
                     timestamp |-> now, tokens |-> res])
  /\ inflight' = RemoveAt(inflight, i)
  /\ UNCHANGED <<now, nextSweep, hist>>

\* the rest of the handler, run when the upstream call of request i has come
\* to outcome o (fetch and response.json() settled)
TokenSettles(i, o) ==
  /\ i \in 1..Len(inflight)
  /\ inflight[i].kind = "token"
  /\ LET res == SettledResponse(o, TokenKeys, "Token exchange failed")
     IN /\ analytics' = [analytics EXCEPT !.tokenExchanges = Count(@, res)]
        /\ last' = [op |-> "token_settled", upstream |-> o, res |-> res,
                    calls |-> inflight[i].calls]
  /\ inflight' = RemoveAt(inflight, i)
  /\ UNCHANGED <<pendingAuthSessions, now, nextSweep, hist>>

RefreshReject(refresh_token, ip) ==
  LET res == [status |-> 400, body |-> [error |-> "Missing refresh token"]]
  IN /\ analytics' = [analytics EXCEPT
                        !.tokenRefreshes = Count(Arrived(@), res),
                        !.uniqueUsers = @ \cup {hashIP(ip)}]
     /\ inflight' = inflight
     /\ last' = [op |-> "refresh", req |-> [refresh_token |-> refresh_token],
                 res |-> res, calls |-> 0]
     /\ UNCHANGED <<pendingAuthSessions, now, nextSweep, hist>>

RefreshForward(refresh_token, ip) ==
  /\ analytics' = [analytics EXCEPT
                     !.tokenRefreshes = Arrived(@),
                     !.uniqueUsers = @ \cup {hashIP(ip)}]
  /\ inflight' = Append(inflight, [kind |-> "refresh", calls |-> 1])
  /\ last' = [op |-> "refresh", req |-> [refresh_token |-> refresh_token],
              res |-> NoResponse, calls |-> 1]
  /\ UNCHANGED <<pendingAuthSessions, now, nextSweep, hist>>

RefreshRequest(refresh_token, ip) ==
  /\ Requests < MaxRequests
  /\ IF ~Truthy(refresh_token)
     THEN RefreshReject(refresh_token, ip)
     ELSE RefreshForward(refresh_token, ip)

RefreshSettles(i, o) ==
  /\ i \in 1..Len(inflight)
  /\ inflight[i].kind = "refresh"
  /\ LET res == SettledResponse(o, RefreshKeys, "Token refresh failed")
     IN /\ analytics' = [analytics EXCEPT !.tokenRefreshes = Count(@, res)]
        /\ last' = [op |-> "refresh_settled", upstream |-> o, res |-> res,
                    calls |-> inflight[i].calls]
  /\ inflight' = RemoveAt(inflight, i)
  /\ UNCHANGED <<pendingAuthSessions, now, nextSweep, hist>>

----------------------------------------------------------------------------
(* GET /health and GET /stats *)

Health ==
  /\ last' = [op |-> "health",
              res |-> [status |-> 200, body |-> [status |-> "ok", timestamp |-> now]]]
  /\ UNCHANGED <<pendingAuthSessions, analytics, now, nextSweep, inflight, hist>>

Digit(d) == SubSeq(<<"0", "1", "2", "3", "4", "5", "6", "7", "8", "9">>, d + 1, d + 1)

RECURSIVE Digits(_)
Digits(n) == IF n < 10 THEN Digit(n) ELSE Digits(n \div 10) \o Digit(n % 10)

\* `${((success / total) * 100).toFixed(1)}%`: the percentage rounded to one
\* decimal, a tie going to the larger value
SuccessRate(c) ==
  IF c.total > 0
  THEN LET tenths == (2000 * c.success + c.total) \div (2 * c.total)
       IN Digits(tenths \div 10) \o <<".">> \o Digit(tenths % 10) \o <<"%">>
  ELSE <<"N", "/", "A">>

StatsOf(c) ==
  [total |-> c.total, success |-> c.success, failed |-> c.failed,
   successRate |-> SuccessRate(c)]

\* the process starts at time 0
Stats ==
  /\ last' = [op |-> "stats",
              res |-> [status |-> 200,
                       body |-> [startTime |-> 0,
                                 uptimeSeconds |-> now \div 1000,
                                 uniqueUsers |-> Cardinality(analytics.uniqueUsers),
                                 tokenExchanges |-> StatsOf(analytics.tokenExchanges),
                                 tokenRefreshes |-> StatsOf(analytics.tokenRefreshes),
                                 totalRequests |-> analytics.tokenExchanges.total
                                                   + analytics.tokenRefreshes.total]]]
  /\ UNCHANGED <<pendingAuthSessions, analytics, now, nextSweep, inflight, hist>>

----------------------------------------------------------------------------
(* The specifications *)

Counters == [total |-> 0, success |-> 0, failed |-> 0]

Init ==
  /\ pendingAuthSessions = EmptyMap
  /\ analytics = [uniqueUsers |-> {}, tokenExchanges |-> Counters, tokenRefreshes |-> Counters]
  /\ now = 0
  /\ nextSweep = SweepIntervalMs
  /\ inflight = <<>>
  /\ last = [op |-> "start"]
  /\ hist = <<>>

\* the relay: callback, poll and sweep over all the query values
NextRelay ==
  \/ \E code \in CodeValues, state \in StateValues, error \in ErrorValues :
       Callback(code, state, error)
  \/ \E session \in SessionValues : Poll(session)
  \/ Tick
  \/ Sweep

SpecRelay == Init /\ [][NextRelay]_vars

\* the callback handler applied to every request, at every time, on the stores
\* that callbacks build up
NextCallback ==
  \/ \E code \in CodeValues, state \in StateValues, error \in ErrorValues :
       CallbackOf(code, state, error)
  \/ Tick

SpecCallback == Init /\ [][NextCallback]_vars

\* the whole service: the proxies next to a relay that serves one desktop session
Next ==
  \/ Callback(<<"a">>, <<"c", Delim, "s">>, Undefined)
  \/ Poll(<<"s">>)
  \/ Tick
  \/ Sweep
  \/ \E code \in BodyValues, ip \in ClientIPs : TokenRequest(code, ip)
  \/ \E i \in 1..MaxRequests, o \in UpstreamOutcomes : TokenSettles(i, o)
  \/ \E refresh_token \in BodyValues, ip \in ClientIPs : RefreshRequest(refresh_token, ip)
  \/ \E i \in 1..MaxRequests, o \in UpstreamOutcomes : RefreshSettles(i, o)
  \/ Health
  \/ Stats

Spec == Init /\ [][Next]_vars

\* the clock when the sweep timer is on time: it does not pass a due sweep
TimelyTick ==
  /\ now < nextSweep
  /\ now + SweepIntervalMs <= MaxTimelyIntervals * SweepIntervalMs
  /\ now' = now + SweepIntervalMs
  /\ last' = [op |-> "tick"]
  /\ UNCHANGED <<pendingAuthSessions, analytics, nextSweep, inflight, hist>>

\* the relay for two desktop sessions with the sweep running every interval
NextTimely ==
  \/ \E code \in CodeValues, error \in ErrorValues :
       \/ Callback(code, <<"c", Delim, "s">>, error)
       \/ Callback(code, <<"c", Delim, "t">>, error)
  \/ Poll(<<"s">>)
  \/ Poll(<<"t">>)
  \/ TimelyTick
  \/ Sweep

SpecTimely == Init /\ [][NextTimely]_vars /\ WF_vars(TimelyTick) /\ WF_vars(Sweep)

\* the service under the guarantees of the event loop: the clock advances and
\* a due sweep timer fires. Requests arrive or not as the clients please, and
\* no step of the program makes a call to the upstream settle: fetch is called
\* without signal or timeout.
SpecLive == Spec /\ WF_vars(Tick) /\ WF_vars(Sweep)

----------------------------------------------------------------------------
(* Properties of the relay, checked under SpecRelay *)

Pending == [status |-> 200, body |-> [status |-> "pending"]]

Completed(seen) ==
  [status |-> 200,
   body |-> [status |-> "completed", code |-> seen.code, state |-> seen.state,
             error |-> seen.error]]

PolledId == last.req.session

\* C1: exactly-once delivery: of the polls for a session id that follow a
\* callback for it, with no further callback for the id, at most one reports
\* "completed"; the poll that reports "completed" leaves no record behind, so
\* the polls after it report "pending".
C1_ExactlyOnce ==
  /\ \A id \in DOMAIN hist : hist[id].completed <= 1
  /\ (last.op = "poll" /\ last.res.status = 200 /\ last.res # Pending)
       => ~MapHas(pendingAuthSessions, PolledId)

\* a poll after the delivering poll was answered "pending"
C1_Witness ==
  /\ last.op = "poll"
  /\ PolledId \in DOMAIN hist
  /\ hist[PolledId].completed = 1
  /\ ~last.first
  /\ last.res = Pending

\* C2 as stated: a poll for an id before any callback for it reports pending,
\* and the first poll after a callback for the id reports "completed" with the
\* code, the csrf part of the state and the error of the most recent callback.
C2_FirstPollCompletes ==
  (last.op = "poll" /\ Truthy(PolledId)) =>
    IF PolledId \notin DOMAIN hist
    THEN last.res = Pending
    ELSE last.first => last.res = Completed(hist[PolledId].seen)

\* C2 amended: a poll for an id before any callback for it reports pending; the
\* first poll after a callback for the id reports "completed" with the code, the
\* csrf part of the state and the error of the most recent callback, unless the
\* sweep removed the record in between, and then it reports "pending".
C2_RoundTrip ==
  (last.op = "poll" /\ Truthy(PolledId)) =>
    IF PolledId \notin DOMAIN hist
    THEN last.res = Pending
    ELSE last.first =>
           IF hist[PolledId].swept
           THEN last.res = Pending
           ELSE last.res = Completed(hist[PolledId].seen)

\* the first poll after a callback delivered a code
C2_Witness ==
  /\ last.op = "poll"
  /\ PolledId \in DOMAIN hist
  /\ last.first
  /\ ~hist[PolledId].swept
  /\ last.res.body.status = "completed"
  /\ last.res.body.code = <<"a">>

DelimCount(state) == Cardinality({i \in 1..Len(state) : state[i] = Delim})

\* the parts of a state value c|s with one delimiter
PartBefore(state) == SubSeq(state, 1, IndexOf(state, Delim) - 1)
PartAfter(state) == SubSeq(state, IndexOf(state, Delim) + 1, Len(state))

\* a missing or empty query value is stored as null
Given(v) == IF v = Undefined \/ v = <<>> THEN Null ELSE v

\* C3: a callback whose state is c|s with exactly one delimiter and a non-empty
\* s leaves under key s a record with state c, the code and error of the
\* callback (null when absent) and the current time as timestamp; a callback
\* whose state has no delimiter leaves the store unchanged.
C3_Stored ==
  (/\ last.op = "callback"
   /\ DelimCount(last.req.state) = 1
   /\ PartAfter(last.req.state) # <<>>) =>
    /\ MapHas(pendingAuthSessions, PartAfter(last.req.state))
    /\ MapGet(pendingAuthSessions, PartAfter(last.req.state)) =
         [code |-> Given(last.req.code), state |-> PartBefore(last.req.state),
          error |-> Given(last.req.error), timestamp |-> now]

C3_CallbackStores ==
  /\ []C3_Stored
  /\ [][(last'.op = "callback" /\ DelimCount(last'.req.state) = 0)
          => pendingAuthSessions' = pendingAuthSessions]_vars

\* a callback without code has just replaced a record and stripped its state
C3_Witness ==
  /\ last.op = "callback"
  /\ last.req.state = <<"c", Delim, "s">>
  /\ last.req.code = <<>>
  /\ MapGet(pendingAuthSessions, <<"s">>).state = <<"c">>
  /\ MapGet(pendingAuthSessions, <<"s">>).code = Null
  /\ hist[<<"s">>].overwrote
  /\ now > 0

\* C4 as stated: a callback whose state does not contain exactly one delimiter
\* (none, or two or more) writes nothing to the store.
C4_NotOneDelimiterStoresNothing ==
  [][(last'.op = "callback" /\ DelimCount(last'.req.state) # 1)
       => pendingAuthSessions' = pendingAuthSessions]_vars

\* C5: a sweep removes every record older than the TTL and leaves every other
\* record in place with unchanged contents and order; a record that is not
\* older than the TTL leaves the store only by a poll for its id.
C5_SweepSemantics ==
  [][/\ last'.op = "sweep" =>
          /\ MapKeys(pendingAuthSessions') \subseteq MapKeys(pendingAuthSessions)
          /\ \A i \in 1..Len(pendingAuthSessions) :
               LET e == pendingAuthSessions[i]
               IN IF now - e.value.timestamp > expireTime
                  THEN ~MapHas(pendingAuthSessions', e.key)
                  ELSE /\ MapHas(pendingAuthSessions', e.key)
                       /\ MapGet(pendingAuthSessions', e.key) = e.value
          /\ \A i, j \in 1..Len(pendingAuthSessions') :
               i < j => \E k, l \in 1..Len(pendingAuthSessions) :
                          /\ k < l
                          /\ pendingAuthSessions[k] = pendingAuthSessions'[i]
                          /\ pendingAuthSessions[l] = pendingAuthSessions'[j]
     /\ \A i \in 1..Len(pendingAuthSessions) :
          LET e == pendingAuthSessions[i]
          IN (now' - e.value.timestamp <= expireTime
                /\ ~(last'.op = "poll" /\ last'.req.session = e.key))
               => MapHas(pendingAuthSessions', e.key)]_vars

\* a sweep removed one record and left another, which had reached the TTL
C5_Witness ==
  /\ last.op = "sweep"
  /\ \E id \in DOMAIN hist : hist[id].swept /\ ~MapHas(pendingAuthSessions, id)
  /\ \E i \in 1..Len(pendingAuthSessions) :
       now - pendingAuthSessions[i].value.timestamp = expireTime

\* C6: the store holds at most one record per session id; the record of an id
\* holds the code, state and error of the most recent callback for it and the
\* time of that callback as timestamp; a poll that reports "completed" delivers
\* the values of that callback.
C6_LastWriteWins ==
  /\ \A i, j \in 1..Len(pendingAuthSessions) :
       pendingAuthSessions[i].key = pendingAuthSessions[j].key => i = j
  /\ \A i \in 1..Len(pendingAuthSessions) :
       LET e == pendingAuthSessions[i]
       IN /\ e.key \in DOMAIN hist
          /\ e.value = [code |-> hist[e.key].seen.code, state |-> hist[e.key].seen.state,
                        error |-> hist[e.key].seen.error, timestamp |-> hist[e.key].at]
  /\ (last.op = "poll" /\ last.res.status = 200 /\ last.res # Pending) =>
       last.res = Completed(hist[PolledId].seen)

\* a poll delivered the values of a callback that had replaced a record
C6_Witness ==
  /\ last.op = "poll"
  /\ PolledId \in DOMAIN hist
  /\ hist[PolledId].overwrote
  /\ last.res = Completed(hist[PolledId].seen)
  /\ last.res.body.code = Null
  /\ last.res.body.error = <<"e">>

\* C7: a poll without a session identifier is answered 400 and leaves the
\* store unchanged; a poll with an identifier that has no record is answered
\* "pending" with status 200 and leaves the store unchanged.
C7_PollWithoutRecord ==
  [][last'.op = "poll" =>
       /\ last'.req.session \in {Undefined, <<>>} =>
            /\ last'.res.status = 400
            /\ pendingAuthSessions' = pendingAuthSessions
       /\ (last'.req.session \notin {Undefined, <<>>}
             /\ ~MapHas(pendingAuthSessions, last'.req.session)) =>
            /\ last'.res = Pending
            /\ pendingAuthSessions' = pendingAuthSessions]_vars

\* a poll without identifier was refused while a record was waiting
C7_Witness ==
  /\ last.op = "poll"
  /\ PolledId = Undefined
  /\ last.res.status = 400
  /\ Len(pendingAuthSessions) > 0

----------------------------------------------------------------------------
(* Properties of the proxies, checked under Spec *)

Settled == last.op \in {"token_settled", "refresh_settled"}

\* the upstream body parsed to an object that carries an error
Rejected(o) == o.kind = "json" /\ ~o.isNull /\ "error" \in DOMAIN o.data

\* fetch failed, or the body is not the JSON of an object
TransportFailure(o) == o.kind \in {"network_error", "malformed"} \/ (o.kind = "json" /\ o.isNull)

\* the field of the request body that the handler requires
RequiredField(l) == IF l.op = "token" THEN l.req.code ELSE l.req.refresh_token

\* C8: a token request without code and a refresh request without
\* refresh_token are answered 400, call the upstream not at all, and change
\* nothing but the analytics of their own kind: the session store, the clock,
\* the timer, the suspended requests and the other counters stay as they are.
C8_MissingField ==
  [][(last'.op \in {"token", "refresh"} /\ RequiredField(last') \in {Undefined, Null, <<>>}) =>
       /\ last'.res.status = 400
       /\ last'.calls = 0
       /\ inflight' = inflight
       /\ pendingAuthSessions' = pendingAuthSessions
       /\ now' = now /\ nextSweep' = nextSweep
       /\ IF last'.op = "token"
          THEN analytics'.tokenRefreshes = analytics.tokenRefreshes
          ELSE analytics'.tokenExchanges = analytics.tokenExchanges]_vars

\* a token request without code was refused while a record and a suspended
\* request were there
C8_Witness ==
  /\ last.op = "token"
  /\ last.req.code = Undefined
  /\ last.res.status = 400
  /\ Len(pendingAuthSessions) > 0
  /\ Len(inflight) > 0

\* C9: when the upstream body carries an error, the request is answered 400
\* with the upstream's error as error and its error_description as description
\* (no description when the upstream gave none), after exactly one upstream call.
C9_RejectionPassThrough ==
  (Settled /\ Rejected(last.upstream)) =>
    /\ last.res.status = 400
    /\ last.res.body.error = last.upstream.data.error
    /\ IF "error_description" \in DOMAIN last.upstream.data
       THEN /\ DOMAIN last.res.body = {"error", "description"}
            /\ last.res.body.description = last.upstream.data.error_description
       ELSE DOMAIN last.res.body = {"error"}
    /\ last.calls = 1

\* a refresh was refused by the upstream with invalid_grant / Bad code
C9_Witness ==
  /\ last.op = "refresh_settled"
  /\ last.res = [status |-> 400, body |-> [error |-> "invalid_grant", description |-> "Bad code"]]

\* C10: a network error or an unusable upstream response is answered 500, an
\* error reported by the upstream 400; no transport failure is answered 400
\* and no upstream rejection 500.
C10_FailureClasses ==
  Settled =>
    /\ TransportFailure(last.upstream) => last.res.status = 500
    /\ Rejected(last.upstream) => last.res.status = 400
    /\ last.res.status = 400 => Rejected(last.upstream)
    /\ last.res.status = 500 => TransportFailure(last.upstream)

\* a token exchange failed on a body that did not parse
C10_Witness ==
  /\ last.op = "token_settled"
  /\ last.upstream.kind = "malformed"
  /\ last.res.status = 500

\* the upstream body parsed to an object without error
Succeeded(o) == o.kind = "json" /\ ~o.isNull /\ "error" \notin DOMAIN o.data

\* C11: on upstream success a token exchange is answered 200 with exactly
\* the upstream's access_token, refresh_token, expires_in, token_type and
\* scope, and a refresh is answered 200 with the upstream's access_token,
\* expires_in, token_type and scope and no refresh_token key; nothing else
\* of the upstream body is relayed.
C11_SuccessRelay ==
  (Settled /\ Succeeded(last.upstream)) =>
    LET data == last.upstream.data
        body == last.res.body
        keys == IF last.op = "token_settled"
                THEN {"access_token", "refresh_token", "expires_in", "token_type", "scope"}
                ELSE {"access_token", "expires_in", "token_type", "scope"}
    IN /\ last.res.status = 200
       /\ DOMAIN body = keys \cap DOMAIN data
       /\ \A k \in DOMAIN body : body[k] = data[k]
       /\ last.op = "refresh_settled" => "refresh_token" \notin DOMAIN body

\* a refresh succeeded on an upstream body that held a refresh_token
C11_Witness ==
  /\ last.op = "refresh_settled"
  /\ last.res.status = 200
  /\ "refresh_token" \in DOMAIN last.upstream.data
  /\ last.res.body = [access_token |-> "a", expires_in |-> "3599",
                      token_type |-> "Bearer", scope |-> "cal"]

\* the entries of store m that are not entries of store n
EntriesNotIn(m, n) == {m[i] : i \in 1..Len(m)} \ {n[i] : i \in 1..Len(n)}

\* C12: the proxies are stateless towards the session store: a record is
\* written only by the callback and removed only by a poll or the sweep; the
\* token, refresh, health and stats handlers leave the store as it is on every
\* outcome, so every record holds a code, a state, an error and a timestamp
\* and never a token.
C12_StatelessProxies ==
  /\ [](\A i \in 1..Len(pendingAuthSessions) :
          DOMAIN pendingAuthSessions[i].value = {"code", "state", "error", "timestamp"})
  /\ [][/\ EntriesNotIn(pendingAuthSessions', pendingAuthSessions) # {}
             => last'.op = "callback"
        /\ EntriesNotIn(pendingAuthSessions, pendingAuthSessions') # {}
             => last'.op \in {"callback", "poll", "sweep"}
        /\ last'.op \in {"token", "token_settled", "refresh", "refresh_settled",
                         "health", "stats"}
             => pendingAuthSessions' = pendingAuthSessions]_vars

\* a token exchange succeeded while a record was waiting in the store
C12_Witness ==
  /\ last.op = "token_settled"
  /\ last.res.status = 200
  /\ MapHas(pendingAuthSessions, <<"s">>)

C14_PollSweepRace ==
  /\ [](\A id \in DOMAIN hist :
          /\ ~(hist[id].swept /\ hist[id].completed > 0)
          /\ MapHas(pendingAuthSessions, id) => (~hist[id].swept /\ hist[id].completed = 0))
  /\ [][/\ (last'.op = "poll" /\ MapHas(pendingAuthSessions, last'.req.session))
             => /\ last'.res = Completed(MapGet(pendingAuthSessions, last'.req.session))
                /\ ~MapHas(pendingAuthSessions', last'.req.session)
        /\ (last'.op = "poll" /\ last'.res.status = 200 /\ last'.res # Pending)
             => /\ MapHas(pendingAuthSessions, last'.req.session)
                /\ ~hist[last'.req.session].swept
        /\ last'.op = "sweep"
             => \A i \in 1..Len(pendingAuthSessions) :
                  Expired(pendingAuthSessions[i].value, now)
                    => /\ ~MapHas(pendingAuthSessions', pendingAuthSessions[i].key)
                       /\ hist'[pendingAuthSessions[i].key].swept]_vars

\* the sweep took the record first: the first poll after the callback found
\* nothing
C14_Witness ==
  /\ last.op = "poll"
  /\ last.first
  /\ last.res = Pending
  /\ hist[PolledId].swept
  /\ hist[PolledId].completed = 0

----------------------------------------------------------------------------
(* Lifetime of a record, checked with the sweep on time *)

Age(i) == now - pendingAuthSessions[i].value.timestamp

\* the record of a callback for id at time t is in the store
WrittenAt(id, t) ==
  MapHas(pendingAuthSessions, id) /\ MapGet(pendingAuthSessions, id).timestamp = t

\* the times of writing from which the clock still runs a TTL and one interval
EarlyTimes ==
  {k * SweepIntervalMs : k \in 0..MaxTimelyIntervals}
    \cap 0..(MaxTimelyIntervals * SweepIntervalMs - expireTime - SweepIntervalMs)

\* C15: with the sweep running every interval, a sweep leaves no record
\* older than the TTL, no record is ever in the store more than the TTL plus
\* one sweep interval after it was written, and every record written is
\* removed in the end.
C15_BoundedLifetime ==
  /\ [](\A i \in 1..Len(pendingAuthSessions) :
          /\ Age(i) <= expireTime + SweepIntervalMs
          /\ last.op = "sweep" => Age(i) <= expireTime)
  /\ \A id \in {<<"s">>, <<"t">>} : \A t \in EarlyTimes :
       WrittenAt(id, t) ~> ~WrittenAt(id, t)

\* a record that no poll fetched is in the store a TTL and one interval after
\* it was written, the sweep that removes it being due
C15_Witness ==
  /\ now >= nextSweep
  /\ \E i \in 1..Len(pendingAuthSessions) : Age(i) = expireTime + SweepIntervalMs

\* C16: a poll for a session id whose record is older than the TTL reports
\* "pending", also when no sweep has run since the record expired: no poll
\* reports "completed" for an expired record.
C16_ExpiredReadsAbsent ==
  [][(/\ last'.op = "poll"
      /\ MapHas(pendingAuthSessions, last'.req.session)
      /\ Expired(MapGet(pendingAuthSessions, last'.req.session), now))
       => last'.res = Pending]_vars

\* C17: while a token or refresh request is suspended at its upstream call,
\* the other handlers are not held up: a callback, a poll, a due sweep, a
\* health or stats request and, as long as requests arrive, a further token
\* or refresh request can each be handled, and each suspended request can be
\* answered whatever the others are doing.
C17_NoBlocking ==
  Len(inflight) > 0 =>
    /\ ENABLED Callback(<<"a">>, <<"c", Delim, "s">>, Undefined)
    /\ ENABLED Poll(<<"s">>)
    /\ now >= nextSweep => ENABLED Sweep
    /\ ENABLED Health
    /\ ENABLED Stats
    /\ Requests < MaxRequests =>
         \A body \in BodyValues, ip \in ClientIPs :
           /\ ENABLED TokenRequest(body, ip)
           /\ ENABLED RefreshRequest(body, ip)
    /\ \A i \in 1..Len(inflight) :
         \A o \in UpstreamOutcomes :
           IF inflight[i].kind = "token"
           THEN ENABLED TokenSettles(i, o)
           ELSE ENABLED RefreshSettles(i, o)

\* a poll delivered a record while a token request and a refresh request
\* were both suspended
C17_Witness ==
  /\ last.op = "poll"
  /\ last.res.status = 200
  /\ last.res # Pending
  /\ Len(inflight) = 2
  /\ inflight[1].kind # inflight[2].kind

----------------------------------------------------------------------------
(* Code and error of a record *)

\* C18 as stated: in every stored record the code is null only when an error
\* is present, the two are never both null, and a record with an error has no
\* code.
C18_CodeXorError ==
  \A i \in 1..Len(pendingAuthSessions) :
    LET data == pendingAuthSessions[i].value
    IN /\ data.code = Null => data.error # Null
       /\ data.error # Null => data.code = Null

\* C18, amended: in every stored record the code is null exactly when the
\* callback that wrote it carried no code and otherwise is that code, and
\* likewise the error; so the code is null only when an error is present, and
\* a record with an error has no code, whenever the callback carried exactly
\* one of the two.
C18_CodeAndErrorAsCarried ==
  \A i \in 1..Len(pendingAuthSessions) :
    LET data == pendingAuthSessions[i].value
        seen == hist[pendingAuthSessions[i].key].seen
    IN /\ data.code = Null <=> seen.code = Null
       /\ data.error = Null <=> seen.error = Null
       /\ data.code # Null => data.code = seen.code
       /\ data.error # Null => data.error = seen.error
       /\ (seen.code = Null) # (seen.error = Null)
            => /\ data.code = Null <=> data.error # Null
               /\ data.error # Null => data.code = Null

\* the record of a callback that carried an error and no code
C18_Witness ==
  \E i \in 1..Len(pendingAuthSessions) :
    /\ pendingAuthSessions[i].value.code = Null
    /\ pendingAuthSessions[i].value.error = <<"e">>
    /\ hist[pendingAuthSessions[i].key].seen.error = <<"e">>

----------------------------------------------------------------------------
(* The analytics counters *)

\* the requests of a kind that wait for the upstream
Waiting(kind) == Cardinality({i \in 1..Len(inflight) : inflight[i].kind = kind})

\* what a step does to the counters c of the kind whose handler starts with
\* operation arrival and ends with operation settled
CountedOnce(c, cNext, arrival, settled, after) ==
  /\ cNext.total >= c.total /\ cNext.success >= c.success /\ cNext.failed >= c.failed
  /\ cNext.total = c.total + (IF after.op = arrival THEN 1 ELSE 0)
  /\ IF after.op \in {arrival, settled} /\ after.res.status = 200
     THEN cNext.success = c.success + 1 /\ cNext.failed = c.failed
     ELSE IF after.op \in {arrival, settled} /\ after.res.status \in {400, 500}
     THEN cNext.success = c.success /\ cNext.failed = c.failed + 1
     ELSE cNext.success = c.success /\ cNext.failed = c.failed

\* C19: for token exchanges and for refreshes, total = success + failed + the
\* requests still waiting for the upstream; no counter ever decreases; a
\* request adds one to total when it arrives and one to exactly one of success
\* (answered 200) and failed (answered 400 or 500) when it is answered.
C19_CounterConsistency ==
  /\ [](/\ analytics.tokenExchanges.total
             = analytics.tokenExchanges.success + analytics.tokenExchanges.failed
               + Waiting("token")
        /\ analytics.tokenRefreshes.total
             = analytics.tokenRefreshes.success + analytics.tokenRefreshes.failed
               + Waiting("refresh"))
  /\ [][/\ CountedOnce(analytics.tokenExchanges, analytics'.tokenExchanges,
                       "token", "token_settled", last')
        /\ CountedOnce(analytics.tokenRefreshes, analytics'.tokenRefreshes,
                       "refresh", "refresh_settled", last')]_vars

\* a token request was answered 500 and counted as failed while a refresh
\* was waiting for the upstream
C19_Witness ==
  /\ last.op = "token_settled"
  /\ last.res.status = 500
  /\ Waiting("refresh") = 1
  /\ analytics.tokenExchanges.failed = 1
  /\ analytics.tokenExchanges.total = 1

\* C20: a 200 answer of the token or refresh proxy always carries the
\* access_token the upstream returned: an upstream body that parses and holds
\* neither error nor access_token is never relayed as a 200.
C20_SuccessCarriesAccessToken ==
  (Settled /\ last.res.status = 200) =>
    /\ "access_token" \in DOMAIN last.upstream.data
    /\ "access_token" \in DOMAIN last.res.body
    /\ last.res.body.access_token = last.upstream.data.access_token

====
